---------------------------- MODULE Spec2Model ----------------------------
(***************************************************************************)
(* A model of larq's optimizers (src/larq/optimizers.py): the routing      *)
(* optimizer CaseOptimizer and the binary optimizer Bop.                   *)
(*                                                                         *)
(* Python values are modelled as follows.                                  *)
(*   - None is the empty set and a present value v is {v} (NoneVal, Some). *)
(*   - A tf.Variable is its name; `value` holds the variables' values.     *)
(*   - A predicate is the set of variables it returns True for (a pure     *)
(*     function of the variable), or a non-callable object.                *)
(*   - An optimizer object is a record of its class, its name and its      *)
(*     hyperparameters; a Bop's slots live in `slot_m`.                    *)
(*   - grads_and_vars is a sequence of [grad, var] records, one per        *)
(*     variable, in the order of the model's trainable weights.            *)
(***************************************************************************)
EXTENDS Integers, Sequences, FiniteSets, TLC

VARIABLES
    case_optimizer, \* instance id -> None | {CaseOptimizer object}
    slot_m,         \* <<owner, optimizer index, variable>> -> the Bop slot "m"
    value,          \* variable -> its value
    bop,            \* None | {a stand-alone Bop object}
    bop_restored,   \* None | {the Bop that Bop.from_config returned}
    saved,          \* None | {the configuration last returned by get_config}
    restoredFrom,   \* None | {the configuration from_config built "r" from}
    ncalls,         \* instance id -> number of apply_gradients calls so far
    outcome,        \* what the most recent operation did (see NoOutcome)
    twin,           \* in a step given to "x" and "r": what the call on "x" did
    in_flight       \* thread -> its apply_gradients call on "x", step by step

vars == <<case_optimizer, slot_m, value, bop, bop_restored, saved, restoredFrom,
          ncalls, outcome, twin, in_flight>>

---------------------------------------------------------------------------
(* Bounds *)

\* Most (predicate, optimizer) pairs given to the constructor.
MaxPairs == 2
\* Most apply_gradients calls per instance.
MaxCalls == 2
\* Most pairs of an instance that is serialized.
MaxSerPairs == 1
\* Most dense updates of the stand-alone Bop.
MaxBopSteps == 2
\* Largest magnitude of a variable's initial value, of a gradient and of
\* the threshold of the stand-alone Bop, and its largest gamma.
MaxValue == 2
MaxGrad == 2
MaxThreshold == 2
MaxGamma == 1
\* Most pairs of an instance that threads share.
MaxConPairs == 2

(* The variables of the model being trained, in trainable-weights order. *)
VarOrder == <<"quant_conv/kernel", "quant_dense/kernel", "dense/bias">>
Vars == {VarOrder[i] : i \in 1..Len(VarOrder)}
(* The gradients a training step may carry. *)
Grads == {1}
(* The value every variable starts with. *)
InitialValue == [v \in Vars |-> 1]

(* The threads that may call apply_gradients on one instance at a time. *)
Threads == {"t1", "t2"}

Instances == {"x", "r"}
(* Whoever owns optimizers that are applied: the instances, a lone Bop. *)
Owners == Instances \cup {"bop"}

---------------------------------------------------------------------------
(* Python values *)

NoneVal == {}
Some(v) == {v}
The(o) == CHOOSE v \in o : TRUE

EmptyDict == [v \in {} |-> 0]
Put(d, k, v) == [j \in DOMAIN d \cup {k} |-> IF j = k THEN v ELSE d[j]]

Max(S) == CHOOSE n \in S : \A k \in S : k <= n
Min2(a, b) == IF a <= b THEN a ELSE b

(* Optimizer objects. *)
Bop(threshold, gamma, name) ==
    [class |-> "Bop", name |-> name,
     hyper |-> [threshold |-> threshold, gamma |-> gamma]]
SGD(learning_rate, name) ==
    [class |-> "SGD", name |-> name, hyper |-> [learning_rate |-> learning_rate]]
(* A hyperparameter is a Python float or a learning-rate schedule object,  *)
(* each tagged with its type. The schedule modelled is Keras'              *)
(* PiecewiseConstantDecay, whose values are exact in integers: values[i]   *)
(* while step <= boundaries[i], and the last entry of values after the     *)
(* last boundary.                                                          *)
Float(n) == [type |-> "float", value |-> n]
PiecewiseConstantDecay(boundaries, values) ==
    [type |-> "PiecewiseConstantDecay", boundaries |-> boundaries, values |-> values]
ScheduleClasses == {"PiecewiseConstantDecay"}
(* isinstance(hyper, tf.keras.optimizers.schedules.LearningRateSchedule) *)
IsSchedule(hyper) == hyper.type \in ScheduleClasses
(* isinstance(value, dict) *)
IsDict(v) == v.type = "dict"
(* hyper(local_step) *)
ScheduleCall(hyper, local_step) ==
    LET reached == {i \in 1..Len(hyper.boundaries) : local_step <= hyper.boundaries[i]}
    IN  IF reached = {} THEN hyper.values[Len(hyper.values)]
        ELSE hyper.values[CHOOSE i \in reached : \A j \in reached : i <= j]

(* An object that is not an optimizer (the tests pass False). *)
NotAnOptimizer == [class |-> "bool", name |-> "False", hyper |-> EmptyDict]

(* isinstance(o, tf.keras.optimizers.Optimizer) *)
OptimizerClasses == {"Bop", "SGD"}
IsOptimizer(o) == o.class \in OptimizerClasses

(* Predicates. *)
Pred(claims) == [callable |-> TRUE, claims |-> claims]
NotCallable == [callable |-> FALSE, claims |-> {}]
(* predicate(var) *)
Call(predicate, var) == var \in predicate.claims

(* The position of a constructor argument, as the TypeError names it. *)
PairPosition(i, j) == [arg |-> "predicate_optimizer_pairs", index |-> i, slot |-> j]
DefaultPosition == [arg |-> "default_optimizer", index |-> -1, slot |-> -1]
NoPosition == [arg |-> "", index |-> -1, slot |-> -1]

(* The record of an operation: which one, on which object, the error it   *)
(* raised ("none" when it returned), and for apply_gradients its input,    *)
(* whether it ran the routing-table build, the predicate calls it made     *)
(* (<<optimizer index, variable>>, in order), the variables it warned      *)
(* about, the index of each delegate it invoked and the bucket that        *)
(* delegate received, in order of invocation, and the variables' values    *)
(* before the call; for __init__ the arguments it was given.               *)
NoArgs == [pairs |-> <<>>, default |-> NoneVal, name |-> ""]
NoOutcome ==
    [op |-> "none", inst |-> "", error |-> "none", position |-> NoPosition,
     args |-> NoArgs, input |-> <<>>, built |-> FALSE, evaluated |-> <<>>, warned |-> {},
     invoked |-> <<>>, dispatched |-> <<>>, before |-> InitialValue]

(* A thread's apply_gradients call: where it is ("idle" before the call,   *)
(* "reset" before self.var_opt_mapping = {}, "loop" in the build's loop at *)
(* variable k of the input, "split" before the buckets are filled and the  *)
(* delegates invoked, "done" after the call), whether another call was in  *)
(* flight at any time during it, and what the call did.                    *)
NoCall ==
    [pc |-> "idle", input |-> <<>>, k |-> 0, built |-> FALSE, interleaved |-> FALSE,
     error |-> "none", evaluated |-> <<>>, warned |-> {}, invoked |-> <<>>,
     dispatched |-> <<>>]
Running == {"reset", "loop", "split"}

---------------------------------------------------------------------------
(* CaseOptimizer.__init__ *)

(* The first argument the type checks reject, or NoPosition. *)
FirstOffenderPredicatesFirst(pairs, default_optimizer) ==
    LET badp == {i \in 1..Len(pairs) : ~pairs[i].predicate.callable}
        bado == {i \in 1..Len(pairs) : ~IsOptimizer(pairs[i].optimizer)}
    IN  IF badp # {}
        THEN PairPosition((CHOOSE k \in badp : \A j \in badp : k <= j) - 1, 0)
        ELSE IF bado # {}
        THEN PairPosition((CHOOSE k \in bado : \A j \in bado : k <= j) - 1, 1)
        ELSE IF default_optimizer # NoneVal /\ ~IsOptimizer(The(default_optimizer))
        THEN DefaultPosition
        ELSE NoPosition
FirstOffender(pairs, default_optimizer) ==
    LET bad == {i \in 1..Len(pairs) :
                   \/ ~pairs[i].predicate.callable
                   \/ ~IsOptimizer(pairs[i].optimizer)}
    IN  IF bad # {}
        THEN LET i == CHOOSE k \in bad : \A j \in bad : k <= j
             IN  IF ~pairs[i].predicate.callable
                 THEN PairPosition(i - 1, 0)
                 ELSE PairPosition(i - 1, 1)
        ELSE IF default_optimizer # NoneVal /\ ~IsOptimizer(The(default_optimizer))
        THEN DefaultPosition
        ELSE NoPosition

(* bool(optimizer): an Optimizer defines neither __bool__ nor __len__. *)
Truthy(o) == o # NoneVal

(* self.DEFAULT_OPT_INDEX = len(self.pred_opt_pairs) *)
DefaultOptIndexAfterAppend(pairs) == Len(pairs) + 1
DefaultOptIndex(pairs) == Len(pairs)

NewCaseOptimizer(pairs, default_optimizer, name) ==
    [name |-> name,
     pred_opt_pairs |-> pairs,
     default |-> default_optimizer,
     var_opt_mapping |-> NoneVal,
     optimizers |->
        [i \in 1..Len(pairs) |-> pairs[i].optimizer]
        \o (IF Truthy(default_optimizer) THEN <<The(default_optimizer)>> ELSE <<>>),
     DEFAULT_OPT_INDEX |->
        IF Truthy(default_optimizer) THEN Some(DefaultOptIndex(pairs)) ELSE NoneVal]

(* The training script constructs its optimizer once, before anything else. *)
Unconstructed == case_optimizer["x"] = NoneVal /\ outcome.op = "none"

Construct(pairs, default_optimizer, name) ==
    /\ Unconstructed
    /\ LET pos == FirstOffender(pairs, default_optimizer)
           called == [NoOutcome EXCEPT
                        !.op = "__init__", !.inst = "x",
                        !.args = [pairs |-> pairs, default |-> default_optimizer,
                                  name |-> name]]
       IN  IF pos # NoPosition
           THEN /\ outcome' = [called EXCEPT !.error = "TypeError", !.position = pos]
                /\ UNCHANGED case_optimizer
           ELSE /\ outcome' = called
                /\ case_optimizer' =
                      [case_optimizer EXCEPT
                          !["x"] = Some(NewCaseOptimizer(pairs, default_optimizer, name))]
    /\ UNCHANGED <<slot_m, value, bop, bop_restored, saved, restoredFrom, ncalls, twin,
                   in_flight>>

---------------------------------------------------------------------------
(* Bop._resource_apply_dense, and the delegates' apply_gradients *)

(* tf.sign: -1, 0 or 1. *)
tf_sign(n) == IF n < 0 THEN -1 ELSE IF n = 0 THEN 0 ELSE 1
(* lq.math.sign: -1 for negative, 1 for non-negative. *)
lq_math_sign(n) == IF n < 0 THEN -1 ELSE 1

(* m_t, the value assigned to the slot. *)
bop_m_t(gamma, m, grad) == (1 - gamma) * m + gamma * grad
(* var_t, the value assigned to the variable. *)
bop_var_t_binary_inner(threshold, var, m_t) ==
    lq_math_sign((-lq_math_sign(var * m_t - threshold)) * var)
bop_var_t_tf_outer(threshold, var, m_t) == tf_sign((-tf_sign(var * m_t - threshold)) * var)
bop_var_t(threshold, var, m_t) == lq_math_sign((-tf_sign(var * m_t - threshold)) * var)

(* Bop._get_decayed_hyper: a schedule is called with the optimizer's step, *)
(* anything else is the value itself.                                      *)
get_decayed_hyper(hyper, local_step) ==
    IF IsSchedule(hyper) THEN ScheduleCall(hyper, local_step) ELSE hyper.value

(* The step (optimizer.iterations) an update runs at. Only the stand-alone *)
(* Bop is given schedules, so only its step is kept; a delegate's          *)
(* hyperparameters are numbers, which do not depend on the step.           *)
LocalStep(st) == IF "iterations" \in DOMAIN st THEN st.iterations ELSE 0

(* One optimizer's update of one variable; st holds value and slot_m. *)
ResourceApplyDenseStaleM(optimizer, key, grad, var, st) ==
    IF optimizer.class = "Bop"
    THEN LET k == <<key[1], key[2], var>>
             m == IF k \in DOMAIN st.slot_m THEN st.slot_m[k] ELSE 0
             gamma == get_decayed_hyper(optimizer.hyper.gamma, LocalStep(st))
             threshold == get_decayed_hyper(optimizer.hyper.threshold, LocalStep(st))
             m_t == bop_m_t(gamma, m, grad)
         IN  [st EXCEPT !.value = [@ EXCEPT ![var] = bop_var_t(threshold, @, m)],
                        !.slot_m = Put(@, k, m_t)]
    ELSE LET lr == get_decayed_hyper(optimizer.hyper.learning_rate, LocalStep(st))
         IN  [st EXCEPT !.value = [@ EXCEPT ![var] = @ - lr * grad]]
ResourceApplyDense(optimizer, key, grad, var, st) ==
    IF optimizer.class = "Bop"
    THEN LET k == <<key[1], key[2], var>>
             m == IF k \in DOMAIN st.slot_m THEN st.slot_m[k] ELSE 0
             gamma == get_decayed_hyper(optimizer.hyper.gamma, LocalStep(st))
             threshold == get_decayed_hyper(optimizer.hyper.threshold, LocalStep(st))
             m_t == bop_m_t(gamma, m, grad)
         IN  [st EXCEPT !.value = [@ EXCEPT ![var] = bop_var_t(threshold, @, m_t)],
                        !.slot_m = Put(@, k, m_t)]
    ELSE LET lr == get_decayed_hyper(optimizer.hyper.learning_rate, LocalStep(st))
         IN  [st EXCEPT !.value = [@ EXCEPT ![var] = @ - lr * grad]]

(* optimizer.apply_gradients(bucket): the pairs of the bucket in order. *)
RECURSIVE OptimizerApplyGradients(_, _, _, _, _)
OptimizerApplyGradients(optimizer, key, bucket, k, st) ==
    IF k > Len(bucket) THEN st
    ELSE OptimizerApplyGradients(optimizer, key, bucket, k + 1,
            ResourceApplyDense(optimizer, key, bucket[k].grad, bucket[k].var, st))

(* bop.apply_gradients([(grad, var)]) on the stand-alone Bop: the slot is  *)
(* created on first sight of the variable, then the dense update runs at   *)
(* step `iterations`, the number of updates completed so far.              *)
BopApplyDense(grad, var) ==
    /\ bop # NoneVal
    /\ ncalls["bop"] < MaxBopSteps
    /\ LET st == ResourceApplyDense(The(bop), <<"bop", 0>>, grad, var,
                                    [value |-> value, slot_m |-> slot_m,
                                     iterations |-> ncalls["bop"]])
       IN  /\ value' = st.value
           /\ slot_m' = st.slot_m
    /\ outcome' = [NoOutcome EXCEPT
                      !.op = "_resource_apply_dense", !.inst = "bop",
                      !.input = <<[grad |-> grad, var |-> var]>>,
                      !.before = value]
    /\ ncalls' = [ncalls EXCEPT !["bop"] = @ + 1]
    /\ UNCHANGED <<case_optimizer, bop, bop_restored, saved, restoredFrom, twin, in_flight>>

(* Bop._resource_apply_sparse: raises, whatever it is given. *)
ResourceApplySparseAsDense(optimizer, key, grad, var, indices, st) ==
    [error |-> "none", st |-> ResourceApplyDense(optimizer, key, grad, var, st)]
ResourceApplySparse(optimizer, key, grad, var, indices, st) ==
    [error |-> "NotImplementedError", st |-> st]

(* The slot "m" of the stand-alone Bop for var; a slot is created as 0. *)
SlotM(slots, var) ==
    IF <<"bop", 0, var>> \in DOMAIN slots THEN slots[<<"bop", 0, var>>] ELSE 0

(* bop.apply_gradients([(IndexedSlices(grad, indices), var)]) on the       *)
(* stand-alone Bop: the slot is created on first sight of the variable,    *)
(* then the sparse update runs. A call that raises does not reach the      *)
(* increment of `iterations`.                                              *)
BopApplySparse(grad, var, indices) ==
    /\ bop # NoneVal
    /\ LET done == ResourceApplySparse(The(bop), <<"bop", 0>>, grad, var, indices,
                       [value |-> value,
                        slot_m |-> Put(slot_m, <<"bop", 0, var>>, SlotM(slot_m, var)),
                        iterations |-> ncalls["bop"]])
       IN  /\ value' = done.st.value
           /\ slot_m' = done.st.slot_m
           /\ outcome' = [NoOutcome EXCEPT
                             !.op = "_resource_apply_sparse", !.inst = "bop",
                             !.error = done.error,
                             !.input = <<[grad |-> grad, var |-> var]>>,
                             !.before = value]
    /\ UNCHANGED <<case_optimizer, bop, bop_restored, saved, restoredFrom, ncalls, twin,
                   in_flight>>

---------------------------------------------------------------------------
(* CaseOptimizer._compute_var_opt_mapping *)

(* The predicate calls made for one variable: every pair, in order. *)
PredicateCallsUntilClaimed(self, var) ==
    LET hits == {j \in 1..Len(self.pred_opt_pairs) :
                    Call(self.pred_opt_pairs[j].predicate, var)}
        last == IF hits = {} THEN Len(self.pred_opt_pairs)
                ELSE CHOOSE j \in hits : \A h \in hits : j <= h
    IN  [i \in 1..last |-> <<i - 1, var>>]
PredicateCalls(self, var) ==
    [i \in 1..Len(self.pred_opt_pairs) |-> <<i - 1, var>>]

(* The optimizer indices whose predicate returns True for var. *)
ClaimersOneBased(self, var) ==
    {i : i \in {j \in 1..Len(self.pred_opt_pairs) :
                    Call(self.pred_opt_pairs[j].predicate, var)}}
Claimers(self, var) ==
    {i - 1 : i \in {j \in 1..Len(self.pred_opt_pairs) :
                        Call(self.pred_opt_pairs[j].predicate, var)}}

(* if num_optimizers > 1: raise ValueError *)
ClaimConflictNever(num_optimizers) == FALSE
ClaimConflict(num_optimizers) == num_optimizers > 1

(* if num_optimizers == 0: the default's index, or no entry and a warning. *)
RouteUnclaimedToFirst(self, mapping, var) ==
    IF self.default # NoneVal
    THEN Put(mapping, var, The(self.DEFAULT_OPT_INDEX))
    ELSE Put(mapping, var, 0)
RouteUnclaimed(self, mapping, var) ==
    IF self.default # NoneVal
    THEN Put(mapping, var, The(self.DEFAULT_OPT_INDEX))
    ELSE mapping
WarnUnclaimed(self, var) == IF self.default # NoneVal THEN {} ELSE {var}

(* acc = [mapping, raised, evaluated, warned]; the loop stops at the raise. *)
RECURSIVE compute_var_opt_mapping(_, _, _, _)
compute_var_opt_mapping(self, grads_and_vars, k, acc) ==
    IF k > Len(grads_and_vars) THEN acc
    ELSE
    LET var == grads_and_vars[k].var
        claimers == Claimers(self, var)
        num_optimizers == Cardinality(claimers)
        claimed == IF claimers = {} THEN acc.mapping
                   ELSE Put(acc.mapping, var, Max(claimers))
        evaluated == acc.evaluated \o PredicateCalls(self, var)
    IN  IF ClaimConflict(num_optimizers)
        THEN [acc EXCEPT !.mapping = claimed, !.raised = TRUE,
                         !.evaluated = evaluated]
        ELSE IF num_optimizers = 0
        THEN compute_var_opt_mapping(self, grads_and_vars, k + 1,
                     [acc EXCEPT !.mapping = RouteUnclaimed(self, claimed, var),
                                 !.evaluated = evaluated,
                                 !.warned = @ \cup WarnUnclaimed(self, var)])
        ELSE compute_var_opt_mapping(self, grads_and_vars, k + 1,
                     [acc EXCEPT !.mapping = claimed, !.evaluated = evaluated])

ComputeVarOptMapping(self, grads_and_vars) ==
    compute_var_opt_mapping(self, grads_and_vars, 1,
        [mapping |-> EmptyDict, raised |-> FALSE, evaluated |-> <<>>, warned |-> {}])

---------------------------------------------------------------------------
(* CaseOptimizer.apply_gradients *)

(* if self.var_opt_mapping is None *)
NeedsBuildAlways(self) == TRUE
NeedsBuild(self) == self.var_opt_mapping = NoneVal

(* grad_var_lists: one bucket per index 0..len(pred_opt_pairs). *)
GradVarListsUpTo(self, mapping, grads_and_vars) ==
    [i \in 1..(Len(self.pred_opt_pairs) + 1) |->
        SelectSeq(grads_and_vars,
                  LAMBDA p : p.var \in DOMAIN mapping /\ mapping[p.var] <= i - 1)]
GradVarListsWithoutDefault(self, mapping, grads_and_vars) ==
    [i \in 1..(Len(self.pred_opt_pairs) + 1) |->
        SelectSeq(grads_and_vars,
                  LAMBDA p : /\ p.var \in DOMAIN mapping /\ mapping[p.var] = i - 1
                             /\ i <= Len(self.pred_opt_pairs))]
GradVarLists(self, mapping, grads_and_vars) ==
    [i \in 1..(Len(self.pred_opt_pairs) + 1) |->
        SelectSeq(grads_and_vars,
                  LAMBDA p : p.var \in DOMAIN mapping /\ mapping[p.var] = i - 1)]

(* A table entry that indexes no bucket makes the append raise IndexError. *)
BadIndex(self, mapping, grads_and_vars) ==
    \E k \in 1..Len(grads_and_vars) :
        /\ grads_and_vars[k].var \in DOMAIN mapping
        /\ mapping[grads_and_vars[k].var] \notin 0..Len(self.pred_opt_pairs)

(* zip(self.optimizers, grad_var_lists): the delegates invoked, in order;  *)
(* st.log records each invocation, the delegate's index and its bucket.    *)
RECURSIVE TrainOpsSkipEmpty(_, _, _, _, _)
TrainOpsSkipEmpty(self, inst, buckets, i, st) ==
    IF i > Min2(Len(self.optimizers), Len(buckets)) THEN st
    ELSE IF buckets[i] = <<>> THEN TrainOpsSkipEmpty(self, inst, buckets, i + 1, st)
    ELSE TrainOpsSkipEmpty(self, inst, buckets, i + 1,
            [OptimizerApplyGradients(self.optimizers[i], <<inst, i - 1>>, buckets[i], 1, st)
                EXCEPT !.log = Append(@, [index |-> i - 1, bucket |-> buckets[i]])])
RECURSIVE TrainOps(_, _, _, _, _)
TrainOps(self, inst, buckets, i, st) ==
    IF i > Min2(Len(self.optimizers), Len(buckets)) THEN st
    ELSE TrainOps(self, inst, buckets, i + 1,
            [OptimizerApplyGradients(self.optimizers[i], <<inst, i - 1>>, buckets[i], 1, st)
                EXCEPT !.log = Append(@, [index |-> i - 1, bucket |-> buckets[i]])])

(* The variables, the slots and the log after the call: the build's raise  *)
(* and the bucket append's IndexError come before any delegate is invoked. *)
EffectsDespiteError(self, inst, buckets, st, failed) == TrainOps(self, inst, buckets, 1, st)
Effects(self, inst, buckets, st, failed) ==
    IF failed THEN st ELSE TrainOps(self, inst, buckets, 1, st)

(* self.apply_gradients(grads_and_vars) with the variables and slots in   *)
(* st: the instance, the variables and slots, and the record of the call,  *)
(* as the call leaves them.                                                *)
CaseApplyGradients(self, inst, grads_and_vars, st) ==
    LET build == NeedsBuild(self)
        computed == ComputeVarOptMapping(self, grads_and_vars)
        mapping == IF build THEN computed.mapping ELSE The(self.var_opt_mapping)
        raised == build /\ computed.raised
        buckets == GradVarLists(self, mapping, grads_and_vars)
        index_error == ~raised /\ BadIndex(self, mapping, grads_and_vars)
        done == [NoOutcome EXCEPT
                   !.op = "apply_gradients", !.inst = inst,
                   !.input = grads_and_vars, !.built = build,
                   !.evaluated = IF build THEN computed.evaluated ELSE <<>>,
                   !.warned = IF build THEN computed.warned ELSE {},
                   !.before = st.value]
        after == Effects(self, inst, buckets,
                         [value |-> st.value, slot_m |-> st.slot_m, log |-> <<>>],
                         raised \/ index_error)
    IN  [self |-> [self EXCEPT !.var_opt_mapping = Some(mapping)],
         st |-> [value |-> after.value, slot_m |-> after.slot_m],
         outcome |->
            [done EXCEPT
                !.error = IF raised THEN "ValueError"
                          ELSE IF index_error THEN "IndexError" ELSE "none",
                !.invoked = [k \in 1..Len(after.log) |-> after.log[k].index],
                !.dispatched = [k \in 1..Len(after.log) |-> after.log[k].bucket]]]

(* One apply_gradients call on one instance. *)
ApplyGradients(inst, grads_and_vars) ==
    /\ case_optimizer[inst] # NoneVal
    /\ ncalls[inst] < MaxCalls
    /\ LET call == CaseApplyGradients(The(case_optimizer[inst]), inst, grads_and_vars,
                                      [value |-> value, slot_m |-> slot_m])
       IN  /\ case_optimizer' = [case_optimizer EXCEPT ![inst] = Some(call.self)]
           /\ outcome' = call.outcome
           /\ value' = call.st.value
           /\ slot_m' = call.st.slot_m
    /\ ncalls' = [ncalls EXCEPT ![inst] = @ + 1]
    /\ UNCHANGED <<bop, bop_restored, saved, restoredFrom, twin, in_flight>>

(* apply_gradients on "x" called by threads that share the instance: the   *)
(* call is taken one group of statements at a time, and the groups of two  *)
(* calls may interleave. *)

(* The record of a thread's finished call. *)
CallOutcome(call, before) ==
    [NoOutcome EXCEPT
        !.op = "apply_gradients", !.inst = "x", !.error = call.error,
        !.input = call.input, !.built = call.built, !.evaluated = call.evaluated,
        !.warned = call.warned, !.invoked = call.invoked,
        !.dispatched = call.dispatched, !.before = before]

(* The call begins: `if self.var_opt_mapping is None`. *)
BeginApply(t, grads_and_vars) ==
    /\ case_optimizer["x"] # NoneVal
    /\ in_flight[t].pc = "idle"
    /\ LET self == The(case_optimizer["x"])
           overlap == \E u \in Threads \ {t} : in_flight[u].pc \in Running
       IN  in_flight' =
              [u \in Threads |->
                  IF u = t
                  THEN [NoCall EXCEPT
                          !.pc = IF NeedsBuild(self) THEN "reset" ELSE "split",
                          !.input = grads_and_vars,
                          !.built = NeedsBuild(self),
                          !.interleaved = overlap]
                  ELSE IF in_flight[u].pc \in Running
                  THEN [in_flight[u] EXCEPT !.interleaved = TRUE]
                  ELSE in_flight[u]]
    /\ ncalls' = [ncalls EXCEPT !["x"] = @ + 1]
    /\ UNCHANGED <<case_optimizer, slot_m, value, bop, bop_restored, saved, restoredFrom,
                   outcome, twin>>

(* _compute_var_opt_mapping begins: self.var_opt_mapping = {} *)
ResetTable(t) ==
    /\ in_flight[t].pc = "reset"
    /\ case_optimizer' =
          [case_optimizer EXCEPT
              !["x"] = Some([The(@) EXCEPT !.var_opt_mapping = Some(EmptyDict)])]
    /\ in_flight' = [in_flight EXCEPT ![t].pc = "loop", ![t].k = 1]
    /\ UNCHANGED <<slot_m, value, bop, bop_restored, saved, restoredFrom, ncalls, outcome,
                   twin>>

(* One turn of the build's loop: the predicates are called for variable k  *)
(* of the input and its entry is written to self.var_opt_mapping, the dict *)
(* the instance holds at that moment; the raise ends the call. After the   *)
(* last variable the call goes on to fill the buckets.                     *)
BuildStep(t) ==
    /\ in_flight[t].pc = "loop"
    /\ LET call == in_flight[t]
           self == The(case_optimizer["x"])
           acc == compute_var_opt_mapping(self, <<call.input[call.k]>>, 1,
                     [mapping |-> The(self.var_opt_mapping), raised |-> FALSE,
                      evaluated |-> call.evaluated, warned |-> call.warned])
           turned == [call EXCEPT
                        !.pc = IF acc.raised THEN "done" ELSE "loop",
                        !.k = @ + 1,
                        !.error = IF acc.raised THEN "ValueError" ELSE "none",
                        !.evaluated = acc.evaluated,
                        !.warned = acc.warned]
       IN  IF call.k > Len(call.input)
           THEN /\ in_flight' = [in_flight EXCEPT ![t].pc = "split"]
                /\ UNCHANGED <<case_optimizer, outcome>>
           ELSE /\ case_optimizer' =
                      [case_optimizer EXCEPT
                          !["x"] = Some([self EXCEPT !.var_opt_mapping = Some(acc.mapping)])]
                /\ in_flight' = [in_flight EXCEPT ![t] = turned]
                /\ outcome' = IF acc.raised THEN CallOutcome(turned, value) ELSE outcome
    /\ UNCHANGED <<slot_m, value, bop, bop_restored, saved, restoredFrom, ncalls, twin>>

(* The rest of the call: the buckets are filled from the table as it is    *)
(* now, and every delegate is given its bucket.                            *)
SplitAndApply(t) ==
    /\ in_flight[t].pc = "split"
    /\ LET call == in_flight[t]
           self == The(case_optimizer["x"])
           mapping == The(self.var_opt_mapping)
           buckets == GradVarLists(self, mapping, call.input)
           index_error == BadIndex(self, mapping, call.input)
           after == Effects(self, "x", buckets,
                            [value |-> value, slot_m |-> slot_m, log |-> <<>>],
                            index_error)
           finished == [call EXCEPT
                          !.pc = "done",
                          !.error = IF index_error THEN "IndexError" ELSE "none",
                          !.invoked = [k \in 1..Len(after.log) |-> after.log[k].index],
                          !.dispatched = [k \in 1..Len(after.log) |-> after.log[k].bucket]]
       IN  /\ value' = after.value
           /\ slot_m' = after.slot_m
           /\ in_flight' = [in_flight EXCEPT ![t] = finished]
           /\ outcome' = CallOutcome(finished, value)
    /\ UNCHANGED <<case_optimizer, bop, bop_restored, saved, restoredFrom, ncalls, twin>>

(* One training step given to the original and to the restored instance:   *)
(* x.apply_gradients(grads_and_vars), then r.apply_gradients of the same.  *)
ApplyBoth(grads_and_vars) ==
    /\ case_optimizer["x"] # NoneVal /\ case_optimizer["r"] # NoneVal
    /\ ncalls["x"] < MaxCalls /\ ncalls["r"] < MaxCalls
    /\ LET first == CaseApplyGradients(The(case_optimizer["x"]), "x", grads_and_vars,
                                       [value |-> value, slot_m |-> slot_m])
           second == CaseApplyGradients(The(case_optimizer["r"]), "r", grads_and_vars,
                                        first.st)
       IN  /\ case_optimizer' = [case_optimizer EXCEPT !["x"] = Some(first.self),
                                                       !["r"] = Some(second.self)]
           /\ twin' = first.outcome
           /\ outcome' = second.outcome
           /\ value' = second.st.value
           /\ slot_m' = second.st.slot_m
    /\ ncalls' = [ncalls EXCEPT !["x"] = @ + 1, !["r"] = @ + 1]
    /\ UNCHANGED <<bop, bop_restored, saved, restoredFrom, in_flight>>

---------------------------------------------------------------------------
(* get_config and from_config *)

(* optimizer.get_config(): the name and the hyperparameters, not the class. *)
(* _serialize_hyperparameter turns a schedule into the dict of its class   *)
(* name and configuration, and leaves a number as it is.                   *)
serialize_hyperparameter(hyper) ==
    IF IsSchedule(hyper)
    THEN [type |-> "dict", class_name |-> hyper.type,
          config |-> [boundaries |-> hyper.boundaries, values |-> hyper.values]]
    ELSE hyper
OptimizerGetConfig(optimizer) ==
    [name |-> optimizer.name,
     hyper |-> [h \in DOMAIN optimizer.hyper |->
                   serialize_hyperparameter(optimizer.hyper[h])]]

(* {"class_name": optimizer_config["name"], "config": optimizer_config} *)
Tagged(optimizer_config) ==
    [class_name |-> optimizer_config.name, config |-> optimizer_config]

(* CaseOptimizer.get_config: None.get_config() raises AttributeError. *)
CaseGetConfig(self) ==
    IF self.default = NoneVal
    THEN [error |-> "AttributeError", config |-> NoneVal]
    ELSE [error |-> "none",
          config |-> Some(
            [name |-> self.name,
             optimizer_configs |->
                [i \in 1..Len(self.pred_opt_pairs) |->
                    Tagged(OptimizerGetConfig(self.pred_opt_pairs[i].optimizer))],
             default_config |-> Some(Tagged(OptimizerGetConfig(The(self.default)))),
             var_opt_mapping |-> self.var_opt_mapping])]

GetConfig(inst) ==
    /\ case_optimizer[inst] # NoneVal
    /\ LET got == CaseGetConfig(The(case_optimizer[inst]))
       IN  /\ outcome' = [NoOutcome EXCEPT !.op = "get_config", !.inst = inst,
                                           !.error = got.error]
           /\ saved' = IF got.error = "none" THEN got.config ELSE saved
    /\ UNCHANGED <<case_optimizer, slot_m, value, bop, bop_restored, restoredFrom, ncalls, twin,
                   in_flight>>

(* The hyperparameters each registered optimizer class accepts. *)
HyperNames(class) ==
    IF class = "Bop" THEN {"threshold", "gamma"} ELSE {"learning_rate"}

(* tf.keras.optimizers.schedules.deserialize(config[hyper]) *)
schedules_deserialize(d) ==
    [type |-> d.class_name, boundaries |-> d.config.boundaries, values |-> d.config.values]

(* The hyperparameters from_config looks at: Bop's loop names gamma and    *)
(* threshold, Keras' own from_config the learning rate.                    *)
DeserializedHypersGammaOnly == {"gamma", "learning_rate"}
DeserializedHypers == {"gamma", "threshold", "learning_rate"}

(* cls.from_config(config): a hyperparameter that is a dict is replaced by *)
(* the schedule it deserializes to, then the constructor is called.        *)
ConfigWithSchedules(config) ==
    [config EXCEPT !.hyper =
        [h \in DOMAIN config.hyper |->
            IF h \in DeserializedHypers /\ IsDict(config.hyper[h])
            THEN schedules_deserialize(config.hyper[h])
            ELSE config.hyper[h]]]
OptimizerFromConfig(class, config) ==
    [class |-> class, name |-> config.name, hyper |-> ConfigWithSchedules(config).hyper]

(* config = bop.get_config() on the stand-alone Bop. *)
BopGetConfig ==
    /\ bop # NoneVal
    /\ saved' = Some(OptimizerGetConfig(The(bop)))
    /\ outcome' = [NoOutcome EXCEPT !.op = "Bop.get_config", !.inst = "bop"]
    /\ UNCHANGED <<case_optimizer, slot_m, value, bop, bop_restored, restoredFrom, ncalls,
                   twin, in_flight>>

(* Bop.from_config(config): the loop stores each deserialized schedule in  *)
(* the caller's dict, so the saved configuration holds the schedule        *)
(* objects afterwards.                                                     *)
BopFromConfig(config) ==
    /\ bop_restored' = Some(OptimizerFromConfig("Bop", config))
    /\ saved' = Some(ConfigWithSchedules(config))
    /\ restoredFrom' = Some(config)
    /\ outcome' = [NoOutcome EXCEPT !.op = "Bop.from_config", !.inst = "bop"]
    /\ UNCHANGED <<case_optimizer, slot_m, value, bop, ncalls, twin, in_flight>>

(* tf.keras.optimizers.deserialize: the class registered under class_name, *)
(* built from the configuration; an unknown name raises ValueError, and a  *)
(* configuration of another class's hyperparameters TypeError.             *)
Deserialize(tagged) ==
    IF tagged.class_name \notin OptimizerClasses
    THEN [error |-> "ValueError", optimizer |-> NotAnOptimizer]
    ELSE IF DOMAIN tagged.config.hyper # HyperNames(tagged.class_name)
    THEN [error |-> "TypeError", optimizer |-> NotAnOptimizer]
    ELSE [error |-> "none",
          optimizer |-> OptimizerFromConfig(tagged.class_name, tagged.config)]

(* case_optimizer.var_opt_mapping = config["var_opt_mapping"] *)
InstalledMappingNone(config) == NoneVal
InstalledMapping(config) == config.var_opt_mapping

(* CaseOptimizer.from_config: the delegates are deserialized in order,     *)
(* then the default; config["default_config"] of a configuration without   *)
(* one raises KeyError. The constructor is given no name.                  *)
CaseFromConfig(config) ==
    LET opts == [i \in 1..Len(config.optimizer_configs) |->
                    Deserialize(config.optimizer_configs[i])]
        bad == {i \in 1..Len(opts) : opts[i].error # "none"}
        default == IF config.default_config = NoneVal
                   THEN [error |-> "KeyError", optimizer |-> NotAnOptimizer]
                   ELSE Deserialize(The(config.default_config))
        pairs == [i \in 1..Len(opts) |->
                    [predicate |-> Pred({}), optimizer |-> opts[i].optimizer]]
    IN  IF bad # {}
        THEN [error |-> opts[CHOOSE i \in bad : \A j \in bad : i <= j].error,
              instance |-> NoneVal]
        ELSE IF default.error # "none"
        THEN [error |-> default.error, instance |-> NoneVal]
        ELSE [error |-> "none",
              instance |-> Some(
                [NewCaseOptimizer(pairs, Some(default.optimizer), "optimizer_case")
                    EXCEPT !.var_opt_mapping = InstalledMapping(config)])]

(* r = CaseOptimizer.from_config(config), once. *)
FromConfig(config) ==
    /\ case_optimizer["r"] = NoneVal
    /\ restoredFrom = NoneVal
    /\ LET made == CaseFromConfig(config)
       IN  /\ outcome' = [NoOutcome EXCEPT !.op = "from_config", !.inst = "r",
                                           !.error = made.error]
           /\ case_optimizer' = [case_optimizer EXCEPT !["r"] = made.instance]
    /\ restoredFrom' = Some(config)
    /\ UNCHANGED <<slot_m, value, bop, bop_restored, saved, ncalls, twin, in_flight>>

(* The configuration with its default_config entry left out. *)
WithoutDefault(config) == [config EXCEPT !.default_config = NoneVal]

---------------------------------------------------------------------------
(* The inputs of the operations *)

SeqsUpTo(S, n) == UNION {[1..k -> S] : k \in 0..n}

(* Every grads_and_vars: a subsequence of VarOrder, a gradient for each. *)
RECURSIVE InputsFrom(_)
InputsFrom(k) ==
    IF k > Len(VarOrder) THEN {<<>>}
    ELSE LET rest == InputsFrom(k + 1)
         IN  rest \cup {<<[grad |-> g, var |-> VarOrder[k]]>> \o s : g \in Grads, s \in rest}
Inputs == InputsFrom(1)

(* Constructor arguments of the routing specification: any predicate, a    *)
(* Bop or a non-optimizer in each pair; no default, an SGD default or a    *)
(* non-optimizer default.                                                  *)
RoutingPairs ==
    SeqsUpTo([predicate : {Pred(c) : c \in SUBSET Vars} \cup {NotCallable},
              optimizer : {Bop(Float(0), Float(1), "Bop"), NotAnOptimizer}], MaxPairs)
RoutingDefaults == {NoneVal, Some(SGD(Float(1), "SGD")), Some(NotAnOptimizer)}

(* Constructor arguments of the serialization specification: well-typed,   *)
(* with default and custom names for the instance and for a delegate.      *)
SerPredicates == {Pred({}), Pred({VarOrder[1]}), Pred(Vars)}
SerPairs ==
    SeqsUpTo([predicate : SerPredicates,
              optimizer : {Bop(Float(0), Float(1), "Bop"), Bop(Float(0), Float(1), "bop_binary")}], MaxSerPairs)
SerDefaults == {NoneVal, Some(SGD(Float(1), "SGD"))}
SerNames == {"optimizer_case", "case_for_bnn"}

---------------------------------------------------------------------------
(* Specifications *)

Init ==
    /\ case_optimizer = [i \in Instances |-> NoneVal]
    /\ slot_m = EmptyDict
    /\ value = InitialValue
    /\ bop = NoneVal
    /\ bop_restored = NoneVal
    /\ saved = NoneVal
    /\ restoredFrom = NoneVal
    /\ ncalls = [i \in Owners |-> 0]
    /\ outcome = NoOutcome
    /\ twin = NoOutcome
    /\ in_flight = [t \in Threads |-> NoCall]

(* Routing: construction, then apply_gradients calls on the instance. *)
ConstructRouting ==
    /\ Unconstructed
    /\ \E pairs \in RoutingPairs, d \in RoutingDefaults :
           Construct(pairs, d, "optimizer_case")
ApplyRouting == \E gv \in Inputs : ApplyGradients("x", gv)

Next == ConstructRouting \/ ApplyRouting

Spec == Init /\ [][Next]_vars

(* The binary optimizer alone: a Bop with integer hyperparameters, applied *)
(* to dense gradients of variables that all start with the same value.     *)
(* The hyperparameters the stand-alone Bop is constructed with: numbers,   *)
(* or a schedule that steps from 1 to 0 after the first update.            *)
HyperSchedules == {PiecewiseConstantDecay(<<0>>, <<1, 0>>)}
Hypers(numbers) == {Float(n) : n \in numbers} \cup HyperSchedules

InitBop ==
    /\ case_optimizer = [i \in Instances |-> NoneVal]
    /\ slot_m = EmptyDict
    /\ \E v0 \in (-MaxValue)..MaxValue : value = [v \in Vars |-> v0]
    /\ \E t \in Hypers((-MaxThreshold)..MaxThreshold), g \in Hypers(0..MaxGamma) :
          bop = Some(Bop(t, g, "Bop"))
    /\ bop_restored = NoneVal
    /\ saved = NoneVal
    /\ restoredFrom = NoneVal
    /\ ncalls = [i \in Owners |-> 0]
    /\ outcome = NoOutcome
    /\ twin = NoOutcome
    /\ in_flight = [t \in Threads |-> NoCall]

(* The variables the stand-alone Bop is applied to: the binary kernels. *)
BopVars == {VarOrder[1], VarOrder[2]}
BopDense == \E grad \in (-MaxGrad)..MaxGrad, var \in BopVars : BopApplyDense(grad, var)

(* The indices an IndexedSlices gradient of a one-element variable carries. *)
SparseIndices == {<<0>>}
BopSparse ==
    \E grad \in Grads, var \in BopVars, indices \in SparseIndices :
        BopApplySparse(grad, var, indices)

NextBop == BopDense \/ BopSparse

SpecBop == InitBop /\ [][NextBop]_vars

(* Threads sharing one instance: construction, then one apply_gradients    *)
(* call per thread, the calls one after the other or interleaved.          *)
ConPredicates == {Pred({VarOrder[1]}), Pred({VarOrder[2]}), Pred({VarOrder[1], VarOrder[2]})}
ConPairs ==
    SeqsUpTo([predicate : ConPredicates, optimizer : {Bop(Float(0), Float(1), "Bop")}],
             MaxConPairs)
ConInputs == {gv \in Inputs : Len(gv) >= 2}

ConstructCon ==
    /\ Unconstructed
    /\ \E pairs \in ConPairs, d \in SerDefaults : Construct(pairs, d, "optimizer_case")
BeginCon == \E t \in Threads, gv \in ConInputs : BeginApply(t, gv)
ResetCon == \E t \in Threads : ResetTable(t)
BuildCon == \E t \in Threads : BuildStep(t)
SplitCon == \E t \in Threads : SplitAndApply(t)

NextCon == ConstructCon \/ BeginCon \/ ResetCon \/ BuildCon \/ SplitCon

SpecCon == Init /\ [][NextCon]_vars

(* The serialization test of the stand-alone Bop: get_config, then         *)
(* from_config of the configuration it returned.                           *)
BopRestore == saved # NoneVal /\ BopFromConfig(The(saved))

NextBopSer == BopGetConfig \/ BopRestore

SpecBopSer == InitBop /\ [][NextBopSer]_vars

(* Serialization: an instance with well-typed arguments is trained, its    *)
(* configuration is taken at any time, an instance is restored from that   *)
(* configuration or from it without its default_config entry, and from     *)
(* then on each training step goes to both instances.                      *)
ConstructSer ==
    /\ Unconstructed
    /\ \E pairs \in SerPairs, d \in SerDefaults, name \in SerNames :
           Construct(pairs, d, name)
ApplyOriginal ==
    /\ case_optimizer["r"] = NoneVal
    /\ \E gv \in Inputs : ApplyGradients("x", gv)
GetConfigAny == \E i \in Instances : GetConfig(i)
Restore ==
    /\ saved # NoneVal
    /\ \/ FromConfig(The(saved))
       \/ FromConfig(WithoutDefault(The(saved)))
ApplyLockstep == \E gv \in Inputs : ApplyBoth(gv)

NextSer == ConstructSer \/ ApplyOriginal \/ GetConfigAny \/ Restore \/ ApplyLockstep

SpecSer == Init /\ [][NextSer]_vars

---------------------------------------------------------------------------
(* Properties of the routing optimizer *)

(* The state after an apply_gradients call, and the instance it was on. *)
Applied == outcome.op = "apply_gradients"
Called == The(case_optimizer[outcome.inst])
Returned == outcome.error = "none"
(* The state after the call that ran the routing-table build. *)
FirstApplied == Applied /\ outcome.built

InputVars(input) == {input[k].var : k \in 1..Len(input)}
(* The indices of the invoked delegates whose bucket holds pair p. *)
BucketsOf(p) ==
    {i \in 1..Len(outcome.dispatched) :
        \E k \in 1..Len(outcome.dispatched[i]) : outcome.dispatched[i][k] = p}
RECURSIVE SumLen(_, _)
SumLen(buckets, i) ==
    IF i > Len(buckets) THEN 0 ELSE Len(buckets[i]) + SumLen(buckets, i + 1)
(* The pairs whose predicate returns True for var. *)
ClaimedBy(pairs, var) == {i \in 1..Len(pairs) : var \in pairs[i].predicate.claims}
PairwiseDisjoint(pairs) ==
    \A i, j \in 1..Len(pairs) :
        i # j => pairs[i].predicate.claims \cap pairs[j].predicate.claims = {}
WellTyped(args) ==
    /\ \A i \in 1..Len(args.pairs) :
          args.pairs[i].predicate.callable /\ args.pairs[i].optimizer.class \in {"Bop", "SGD"}
    /\ args.default # NoneVal => The(args.default).class \in {"Bop", "SGD"}

(* C1, as claimed: with pairwise disjoint predicates, with or without a    *)
(* default optimizer, the first apply_gradients call maps every input      *)
(* variable to a delegate index and the dispatched buckets partition the   *)
(* input: each input pair is in exactly one bucket.                        *)
C1_AsClaimed ==
    (FirstApplied /\ PairwiseDisjoint(Called.pred_opt_pairs)) =>
        /\ Returned
        /\ \A k \in 1..Len(outcome.input) :
              /\ outcome.input[k].var \in DOMAIN The(Called.var_opt_mapping)
              /\ Cardinality(BucketsOf(outcome.input[k])) = 1
        /\ SumLen(outcome.dispatched, 1) = Len(outcome.input)

(* C1, amended: with pairwise disjoint predicates the first call returns,  *)
(* an input variable is in the table exactly when a predicate claims it    *)
(* or a default optimizer exists, each such pair is in exactly one         *)
(* dispatched bucket (the one of its table index), and the other pairs     *)
(* (unclaimed, no default) are in no bucket.                               *)
C1_Partition ==
    (FirstApplied /\ PairwiseDisjoint(Called.pred_opt_pairs)) =>
        LET mapping == The(Called.var_opt_mapping)
            routed == {k \in 1..Len(outcome.input) :
                          \/ Called.default # NoneVal
                          \/ ClaimedBy(Called.pred_opt_pairs, outcome.input[k].var) # {}}
        IN  /\ Returned
            /\ DOMAIN mapping = {outcome.input[k].var : k \in routed}
            /\ \A k \in 1..Len(outcome.input) :
                  IF k \in routed
                  THEN BucketsOf(outcome.input[k]) = {mapping[outcome.input[k].var] + 1}
                  ELSE BucketsOf(outcome.input[k]) = {}
            /\ SumLen(outcome.dispatched, 1) = Cardinality(routed)

C1_Witness ==
    /\ FirstApplied /\ Returned
    /\ Len(Called.pred_opt_pairs) = 2
    /\ PairwiseDisjoint(Called.pred_opt_pairs)
    /\ Len(outcome.input) = 3
    /\ \A i \in 1..Len(outcome.dispatched) : Len(outcome.dispatched[i]) = 1

(* C2: the constructor never raises the claim-conflict error and calls no  *)
(* predicate; with well-typed arguments it succeeds whatever the           *)
(* predicates claim. The error is raised by the call that builds the       *)
(* table, whenever two predicates return True for a variable of its input, *)
(* and by no other call.                                                   *)
C2_ConflictOnFirstApply ==
    /\ outcome.op = "__init__" =>
          /\ outcome.error # "ValueError"
          /\ outcome.evaluated = <<>>
          /\ WellTyped(outcome.args) =>
                /\ Returned
                /\ case_optimizer["x"] # NoneVal
                /\ The(case_optimizer["x"]).var_opt_mapping = NoneVal
    /\ Applied =>
          (outcome.error = "ValueError" <=>
              /\ outcome.built
              /\ \E v \in InputVars(outcome.input) :
                    Cardinality(ClaimedBy(Called.pred_opt_pairs, v)) >= 2)

C2_Witness ==
    /\ FirstApplied
    /\ outcome.error = "ValueError"
    /\ ncalls["x"] = 1
    /\ ~PairwiseDisjoint(Called.pred_opt_pairs)

(* One step of C3: once an instance's routing table is set, the step      *)
(* leaves it as it is, and if the step is an apply_gradients call it does  *)
(* not run the build; a variable of its input that is not in the table     *)
(* stays out of it and is in no bucket.                                    *)
C3_Step ==
    \A i \in Instances :
        (case_optimizer[i] # NoneVal /\ The(case_optimizer[i]).var_opt_mapping # NoneVal) =>
            /\ case_optimizer'[i] # NoneVal
            /\ The(case_optimizer'[i]).var_opt_mapping = The(case_optimizer[i]).var_opt_mapping
            /\ (outcome'.op = "apply_gradients" /\ outcome'.inst = i /\ ncalls'[i] # ncalls[i]) =>
                  /\ ~outcome'.built
                  /\ \A k \in 1..Len(outcome'.input) :
                        outcome'.input[k].var \notin DOMAIN The(The(case_optimizer[i]).var_opt_mapping) =>
                            /\ outcome'.input[k].var \notin
                                  DOMAIN The(The(case_optimizer'[i]).var_opt_mapping)
                            /\ \A b \in 1..Len(outcome'.dispatched) :
                                  \A n \in 1..Len(outcome'.dispatched[b]) :
                                      outcome'.dispatched[b][n] # outcome'.input[k]
(* C3: the routing table is built at most once per instance and is frozen *)
(* afterwards: every step satisfies C3_Step, so no later call changes the  *)
(* table, and a previously unseen variable is not added and is skipped.    *)
C3_TableFrozen == [][C3_Step]_vars

(* A later call that carries a variable the first call did not see, on an  *)
(* instance whose default optimizer would have taken it.                   *)
C3_Witness ==
    /\ Applied /\ ~outcome.built /\ Returned
    /\ Called.default # NoneVal
    /\ \E v \in InputVars(outcome.input) : v \notin DOMAIN The(Called.var_opt_mapping)
    /\ \E b \in 1..Len(outcome.dispatched) : outcome.dispatched[b] # <<>>

(* C4: with a default optimizer, the call that builds the table maps every *)
(* input variable no predicate claims to the index len(pred_opt_pairs),    *)
(* which is the default's place in the delegate list, and when the call    *)
(* returns the pair is in the bucket given to the default optimizer.       *)
C4_DefaultTakesUnclaimed ==
    (FirstApplied /\ Called.default # NoneVal) =>
        LET n == Len(Called.pred_opt_pairs)
            mapping == The(Called.var_opt_mapping)
        IN  /\ Called.DEFAULT_OPT_INDEX = Some(n)
            /\ Len(Called.optimizers) = n + 1
            /\ Called.optimizers[n + 1] = The(Called.default)
            /\ \A k \in 1..Len(outcome.input) :
                  ClaimedBy(Called.pred_opt_pairs, outcome.input[k].var) = {} =>
                      /\ outcome.input[k].var \in DOMAIN mapping =>
                            mapping[outcome.input[k].var] = n
                      /\ Returned =>
                            /\ outcome.input[k].var \in DOMAIN mapping
                            /\ BucketsOf(outcome.input[k]) = {n + 1}

C4_Witness ==
    /\ FirstApplied /\ Returned
    /\ Called.default # NoneVal
    /\ Called.pred_opt_pairs = <<>>
    /\ Len(outcome.input) = 3
    /\ outcome.dispatched = <<outcome.input>>
    /\ \A v \in Vars : value[v] = 0

(* C5: on an instance without a default optimizer, a variable no predicate *)
(* claims is never in the table and never in a bucket, and keeps its       *)
(* value; the call that builds the table warns about it when it returns,   *)
(* and fails only if some input variable is claimed twice.                 *)
C5_UnclaimedNeverTrained ==
    (Applied /\ Called.default = NoneVal) =>
        /\ outcome.error = "ValueError" =>
              \E v \in InputVars(outcome.input) :
                  Cardinality(ClaimedBy(Called.pred_opt_pairs, v)) >= 2
        /\ outcome.error \in {"none", "ValueError"}
        /\ \A v \in Vars :
              ClaimedBy(Called.pred_opt_pairs, v) = {} =>
                  /\ v \notin DOMAIN The(Called.var_opt_mapping)
                  /\ \A b \in 1..Len(outcome.dispatched) :
                        \A n \in 1..Len(outcome.dispatched[b]) :
                            outcome.dispatched[b][n].var # v
                  /\ value[v] = outcome.before[v]
                  /\ value[v] = InitialValue[v]
                  /\ (outcome.built /\ Returned /\ v \in InputVars(outcome.input)) =>
                        v \in outcome.warned

(* A second call: the unclaimed variable is in both inputs, another         *)
(* variable of the input was trained.                                      *)
C5_Witness ==
    /\ Applied /\ ~outcome.built /\ Returned
    /\ Called.default = NoneVal
    /\ ncalls["x"] = 2
    /\ \E v \in InputVars(outcome.input) :
          /\ ClaimedBy(Called.pred_opt_pairs, v) = {}
          /\ value[v] = InitialValue[v]
    /\ \E v \in InputVars(outcome.input) : value[v] # outcome.before[v]

(* The constructor's arguments in the order the checks visit them. *)
ArgumentOrder(args) ==
    [n \in 1..(2 * Len(args.pairs)) |-> PairPosition((n - 1) \div 2, (n - 1) % 2)]
    \o <<DefaultPosition>>
Offends(args, pos) ==
    IF pos.arg = "default_optimizer"
    THEN args.default # NoneVal /\ The(args.default).class \notin {"Bop", "SGD"}
    ELSE IF pos.slot = 0
    THEN ~args.pairs[pos.index + 1].predicate.callable
    ELSE args.pairs[pos.index + 1].optimizer.class \notin {"Bop", "SGD"}

(* C9: the constructor raises TypeError exactly when some argument is of   *)
(* the wrong type; the error names the first such argument in argument     *)
(* order, and no instance exists afterwards.                               *)
C9_TypeChecks ==
    outcome.op = "__init__" =>
        LET order == ArgumentOrder(outcome.args)
            bad == {n \in 1..Len(order) : Offends(outcome.args, order[n])}
        IN  IF bad = {}
            THEN Returned /\ case_optimizer["x"] # NoneVal
            ELSE /\ outcome.error = "TypeError"
                 /\ outcome.position = order[CHOOSE n \in bad : \A j \in bad : n <= j]
                 /\ case_optimizer["x"] = NoneVal

(* A non-optimizer in the first pair is reported although the second       *)
(* pair's predicate is not callable either.                                *)
C9_Witness ==
    /\ outcome.op = "__init__"
    /\ outcome.error = "TypeError"
    /\ outcome.position = PairPosition(0, 1)
    /\ Len(outcome.args.pairs) = 2
    /\ ~outcome.args.pairs[2].predicate.callable

---------------------------------------------------------------------------
(* Properties of the binary optimizer *)

(* The state after a dense update of the stand-alone Bop: the variable it  *)
(* updated, that variable's value before, and the persisted accumulator.   *)
DenseApplied == outcome.op = "_resource_apply_dense"
DenseVar == outcome.input[1].var
DenseBefore == outcome.before[DenseVar]
DenseMNew == slot_m[<<"bop", 0, DenseVar>>]
DenseThreshold == get_decayed_hyper(The(bop).hyper.threshold, ncalls["bop"] - 1)
(* The sign the specification describes: -1 for negative, +1 otherwise. *)
BinarySign(n) == IF n < 0 THEN -1 ELSE 1

(* C10, as claimed: the value written by the dense update is               *)
(* sign(-sign(v * m_new - threshold) * v) with both signs binary.          *)
C10_AsClaimed ==
    DenseApplied =>
        value[DenseVar] =
            BinarySign((-BinarySign(DenseBefore * DenseMNew - DenseThreshold)) * DenseBefore)

(* C10, amended: the written value is the sign of -v when v * m_new is     *)
(* above the threshold, the sign of v when it is below, and +1 when        *)
(* v * m_new equals the threshold (the inner sign is 0 there); it differs  *)
(* from the claimed reference exactly when v * m_new = threshold and v > 0.*)
C10_DenseValue ==
    DenseApplied =>
        /\ value[DenseVar] =
              IF DenseBefore * DenseMNew > DenseThreshold THEN BinarySign(-DenseBefore)
              ELSE IF DenseBefore * DenseMNew < DenseThreshold THEN BinarySign(DenseBefore)
              ELSE 1
        /\ (value[DenseVar] #
              BinarySign((-BinarySign(DenseBefore * DenseMNew - DenseThreshold)) * DenseBefore))
           <=> (DenseBefore * DenseMNew = DenseThreshold /\ DenseBefore > 0)

(* v = 1, m_new = 1, threshold = 1: the product equals the threshold.      *)
C10_Witness ==
    /\ DenseApplied
    /\ DenseBefore = 1 /\ DenseMNew = 1 /\ DenseThreshold = 1
    /\ value[DenseVar] = 1

---------------------------------------------------------------------------
(* Properties of get_config and from_config *)

Original == The(case_optimizer["x"])
Restored == The(case_optimizer["r"])
(* The state after get_config on the restored instance, before any call    *)
(* on it: saved is get_config(from_config(restoredFrom)).                  *)
RoundTripped ==
    /\ outcome.op = "get_config" /\ outcome.inst = "r" /\ Returned
    /\ ncalls["r"] = 0
(* The state after a training step given to both instances. *)
BothApplied == Applied /\ outcome.inst = "r" /\ twin.op = "apply_gradients"

(* C6, as claimed: whenever the round trip completes, the configuration of *)
(* the restored instance equals the configuration it was restored from:    *)
(* name, delegate configurations, default configuration and table.         *)
C6_RoundTrip ==
    RoundTripped =>
        /\ The(saved).name = The(restoredFrom).name
        /\ The(saved).optimizer_configs = The(restoredFrom).optimizer_configs
        /\ The(saved).default_config = The(restoredFrom).default_config
        /\ The(saved).var_opt_mapping = The(restoredFrom).var_opt_mapping

(* C7, as claimed: for a configuration taken at any point of the           *)
(* original's life, a training step given to both instances is dispatched  *)
(* alike: the same error, the same bucket for each delegate index.         *)
C7_AsClaimed ==
    BothApplied =>
        /\ outcome.error = twin.error
        /\ outcome.dispatched = twin.dispatched

(* C7, amended: the same, for a configuration taken after the original's   *)
(* routing table was set.                                                  *)
C7_EquivalentOnceBuilt ==
    (BothApplied /\ The(restoredFrom).var_opt_mapping # NoneVal) =>
        /\ outcome.error = twin.error
        /\ outcome.dispatched = twin.dispatched
        /\ ~outcome.built /\ ~twin.built
        /\ Restored.var_opt_mapping = Original.var_opt_mapping

(* The original's predicate claims a variable, the table was built before  *)
(* the configuration was taken, and the step after the restore trains that *)
(* variable with the first delegate in both instances.                     *)
C7_Witness ==
    /\ BothApplied /\ Returned
    /\ The(restoredFrom).var_opt_mapping # NoneVal
    /\ Len(Original.pred_opt_pairs) = 1
    /\ Original.pred_opt_pairs[1].predicate.claims = {VarOrder[1]}
    /\ Len(outcome.input) = 3
    /\ Len(outcome.dispatched[1]) = 1 /\ Len(outcome.dispatched[2]) = 2

(* C8, as claimed: get_config on an instance without a default optimizer   *)
(* returns a configuration without default_config, and from_config of a    *)
(* configuration without default_config returns an instance without a      *)
(* default optimizer.                                                      *)
C8_AsClaimed ==
    /\ (outcome.op = "get_config" /\ Called.default = NoneVal) =>
          /\ Returned
          /\ saved # NoneVal /\ The(saved).default_config = NoneVal
    /\ (outcome.op = "from_config" /\ The(restoredFrom).default_config = NoneVal) =>
          /\ Returned
          /\ case_optimizer["r"] # NoneVal /\ Restored.default = NoneVal

---------------------------------------------------------------------------
(* Further properties of the binary optimizer *)

IsBinary(n) == n \in {-1, 1}

(* C11: Bop keeps binary variables binary. After a dense update, every     *)
(* variable whose value was -1 or +1 before the update is -1 or +1 after   *)
(* it, whatever the gradient, the accumulator, gamma and the threshold; as *)
(* this holds of every update, it holds along any sequence of updates.     *)
C11_StaysBinary ==
    DenseApplied =>
        \A v \in Vars : IsBinary(outcome.before[v]) => IsBinary(value[v])

(* Second update of a variable that was -1 and whose v * m_new equals the  *)
(* threshold, where the inner sign is 0: the value written is +1.          *)
C11_Witness ==
    /\ DenseApplied /\ ncalls["bop"] = 2
    /\ DenseBefore = -1
    /\ DenseBefore * DenseMNew = DenseThreshold
    /\ value[DenseVar] = 1

(* C12: a sparse-gradient update requested on Bop raises                   *)
(* NotImplementedError and applies no partial update: across the failed    *)
(* call every variable keeps its value and every accumulator m its value.  *)
C12_SparseFailsFast ==
    [][outcome'.op = "_resource_apply_sparse" =>
          /\ outcome'.error = "NotImplementedError"
          /\ value' = value
          /\ \A v \in Vars : SlotM(slot_m', v) = SlotM(slot_m, v)]_vars

(* A sparse update of a binary variable that a dense update has given a    *)
(* non-zero accumulator, with a non-zero gradient, has failed.             *)
C12_Witness ==
    /\ outcome.op = "_resource_apply_sparse"
    /\ outcome.error = "NotImplementedError"
    /\ ncalls["bop"] >= 1
    /\ outcome.input[1].grad # 0
    /\ SlotM(slot_m, outcome.input[1].var) # 0
    /\ IsBinary(value[outcome.input[1].var])

(* The kind of value a hyperparameter holds: "float" for a constant, the   *)
(* schedule's class for a schedule ("dict" for a dict left in place).      *)
Variant(hyper) == hyper.type

(* C13: Bop configuration round trip. For each of threshold and gamma, the *)
(* optimizer from_config builds from the configuration get_config returned *)
(* holds a hyperparameter of the same variant as the original's: a         *)
(* constant with the same value, or a schedule of the same class with the  *)
(* same configuration.                                                     *)
C13_BopRoundTrip ==
    outcome.op = "Bop.from_config" =>
        \A h \in {"threshold", "gamma"} :
            LET a == The(bop).hyper[h]
                b == The(bop_restored).hyper[h]
            IN  /\ Variant(b) = Variant(a)
                /\ IsSchedule(a) => (b.boundaries = a.boundaries /\ b.values = a.values)
                /\ ~IsSchedule(a) => b.value = a.value

(* A Bop with a schedule for its threshold and a constant gamma has been   *)
(* serialized and restored.                                                *)
C13_Witness ==
    /\ outcome.op = "Bop.from_config"
    /\ IsSchedule(The(bop).hyper.threshold)
    /\ ~IsSchedule(The(bop).hyper.gamma) /\ The(bop).hyper.gamma.value = 1
    /\ IsDict(The(restoredFrom).hyper.threshold)
    /\ bop_restored # NoneVal

(* C14, as claimed: in a dense update of a variable v that is -1 or +1,    *)
(* the sign flips exactly when v * m_new > threshold; in every other case, *)
(* v * m_new = threshold included, the variable keeps its value.           *)
C14_AsClaimed ==
    (DenseApplied /\ IsBinary(DenseBefore)) =>
        value[DenseVar] =
            IF DenseBefore * DenseMNew > DenseThreshold THEN -DenseBefore ELSE DenseBefore

---------------------------------------------------------------------------
(* Further properties of the routing optimizer *)

(* The instance's routing table, once set. *)
Table(self) == The(self.var_opt_mapping)
(* Two or more predicates of the instance return True for var. *)
Conflicting(self, var) == Cardinality(ClaimedBy(self.pred_opt_pairs, var)) >= 2

(* C15, as claimed: after an apply_gradients call that raised the          *)
(* claim-conflict error the instance's var_opt_mapping is still unset, and *)
(* a later call whose input holds a variable that a failed build found     *)
(* claimed twice raises the error again.                                   *)
C15_AsClaimed ==
    /\ (Applied /\ outcome.error = "ValueError") => Called.var_opt_mapping = NoneVal
    /\ (Applied /\ ncalls[outcome.inst] >= 2) =>
          \A v \in InputVars(outcome.input) :
              (v \in DOMAIN Table(Called) /\ Conflicting(Called, v)) =>
                  outcome.error = "ValueError"

(* C16: a claim-conflict error aborts the training step. The call that     *)
(* raises it invokes no delegate and leaves every variable and every       *)
(* accumulator as it was.                                                  *)
C16_ConflictAborts ==
    [][(outcome'.op = "apply_gradients" /\ outcome'.error = "ValueError"
            /\ ncalls' # ncalls) =>
          /\ outcome'.invoked = <<>> /\ outcome'.dispatched = <<>>
          /\ value' = value
          /\ slot_m' = slot_m]_vars

(* The build raised at the second variable of the input after it had       *)
(* routed the first one to a Bop, which would have changed its value.      *)
C16_Witness ==
    /\ Applied /\ outcome.error = "ValueError"
    /\ Len(outcome.input) >= 2
    /\ outcome.input[1].var \in DOMAIN Table(Called)
    /\ ~Conflicting(Called, outcome.input[1].var)
    /\ Table(Called)[outcome.input[1].var] = 0
    /\ Called.optimizers[1].class = "Bop"
    /\ Conflicting(Called, outcome.input[2].var)
    /\ value = InitialValue /\ slot_m = EmptyDict

(* C17: every apply_gradients call that returns invokes every delegate of  *)
(* the delegate list exactly once, in list order, the default optimizer    *)
(* last, whether or not its bucket is empty; the delegate of index i is    *)
(* given exactly the pairs of the input whose variable the routing table   *)
(* maps to i, in input order.                                              *)
C17_EveryDelegateOnce ==
    (Applied /\ Returned) =>
        /\ outcome.invoked = [k \in 1..Len(Called.optimizers) |-> k - 1]
        /\ \A k \in 1..Len(outcome.dispatched) :
              outcome.dispatched[k] =
                 SelectSeq(outcome.input,
                           LAMBDA p : /\ p.var \in DOMAIN Table(Called)
                                      /\ Table(Called)[p.var] = outcome.invoked[k])
        /\ Called.default # NoneVal =>
              /\ Called.optimizers[Len(Called.optimizers)] = The(Called.default)
              /\ outcome.invoked[Len(outcome.invoked)] = Len(Called.pred_opt_pairs)

(* Two pairs and a default: the first delegate's bucket is empty, the      *)
(* second's and the default's are not, and all three were invoked.         *)
C17_Witness ==
    /\ Applied /\ Returned /\ ncalls["x"] = 2
    /\ Len(Called.pred_opt_pairs) = 2 /\ Called.default # NoneVal
    /\ Len(outcome.invoked) = 3
    /\ outcome.dispatched[1] = <<>>
    /\ outcome.dispatched[2] # <<>>
    /\ outcome.dispatched[3] # <<>>

(* The variables a build visits: those of the input up to and including    *)
(* the first one that two predicates claim, all of them if there is none.  *)
Visited(self, input) ==
    LET stops == {k \in 1..Len(input) : Conflicting(self, input[k].var)}
        last == IF stops = {} THEN Len(input)
                ELSE CHOOSE k \in stops : \A j \in stops : k <= j
    IN  {input[k].var : k \in 1..last}

(* C18: predicates are evaluated only by the routing-table build, which    *)
(* only the first apply_gradients call of an instance runs; the build      *)
(* evaluates each predicate exactly once for each variable it visits, all  *)
(* the variables of the input when the call returns. A second or later     *)
(* call evaluates no predicate, also when its input holds a variable that  *)
(* is not in the table.                                                    *)
C18_PredicatesOncePerVariable ==
    Applied =>
        LET calls == {outcome.evaluated[k] : k \in 1..Len(outcome.evaluated)}
            indices == {i - 1 : i \in 1..Len(Called.pred_opt_pairs)}
        IN  /\ outcome.built <=> ncalls[outcome.inst] = 1
            /\ ~outcome.built => outcome.evaluated = <<>>
            /\ outcome.built =>
                  /\ calls = indices \X Visited(Called, outcome.input)
                  /\ Len(outcome.evaluated) = Cardinality(calls)
            /\ (outcome.built /\ Returned) =>
                  Visited(Called, outcome.input) = InputVars(outcome.input)

(* A second call whose input holds a variable that the first call did not  *)
(* carry and that a predicate of the instance would claim.                 *)
C18_Witness ==
    /\ Applied /\ Returned /\ ncalls["x"] = 2
    /\ outcome.evaluated = <<>>
    /\ Len(Called.pred_opt_pairs) = 2
    /\ \E v \in InputVars(outcome.input) :
          /\ v \notin DOMAIN Table(Called)
          /\ ClaimedBy(Called.pred_opt_pairs, v) # {}
    /\ DOMAIN Table(Called) # {}

(* C19, as claimed: no apply_gradients call on an instance that            *)
(* from_config returned runs the routing-table build or evaluates a        *)
(* predicate, whatever configuration of get_config it was built from.      *)
C19_AsClaimed ==
    (Applied /\ outcome.inst = "r") => (~outcome.built /\ outcome.evaluated = <<>>)

(* C19, amended: when the configuration holds a routing table (it was      *)
(* taken after the original's first apply_gradients call), no              *)
(* apply_gradients call on the instance from_config returned runs the      *)
(* build or evaluates a predicate, and the call routes by the deserialized *)
(* table alone: the instance's table is the configuration's, and each      *)
(* invoked delegate receives the pairs that table maps to its index.       *)
C19_RestoredNeverBuilds ==
    (Applied /\ outcome.inst = "r" /\ The(restoredFrom).var_opt_mapping # NoneVal) =>
        /\ ~outcome.built /\ outcome.evaluated = <<>>
        /\ Called.var_opt_mapping = The(restoredFrom).var_opt_mapping
        /\ \A k \in 1..Len(outcome.dispatched) :
              outcome.dispatched[k] =
                 SelectSeq(outcome.input,
                           LAMBDA p :
                              /\ p.var \in DOMAIN The(The(restoredFrom).var_opt_mapping)
                              /\ The(The(restoredFrom).var_opt_mapping)[p.var] = k - 1)

(* The restored instance, built from a configuration whose table holds one *)
(* variable, is given that variable and one the table does not hold.       *)
C19_Witness ==
    /\ Applied /\ outcome.inst = "r" /\ Returned
    /\ The(restoredFrom).var_opt_mapping # NoneVal
    /\ Cardinality(DOMAIN The(The(restoredFrom).var_opt_mapping)) = 1
    /\ Len(outcome.input) = 2
    /\ outcome.input[1].var \in DOMAIN The(The(restoredFrom).var_opt_mapping)
    /\ outcome.input[2].var \notin DOMAIN The(The(restoredFrom).var_opt_mapping)
    /\ Len(Called.pred_opt_pairs) = 1

(* C20: whenever an instance's routing table is set, every value in it is  *)
(* an integer from 0 to the number of explicit pairs and indexes an entry  *)
(* of the delegate list, the number of explicit pairs itself only when     *)
(* there is a default optimizer; so every non-empty bucket of a call that  *)
(* returns has been handed to a delegate, and no call fails on an index.   *)
C20_TableIndexesDelegates ==
    /\ \A i \in Instances :
          (case_optimizer[i] # NoneVal /\ The(case_optimizer[i]).var_opt_mapping # NoneVal) =>
              LET self == The(case_optimizer[i])
              IN  \A v \in DOMAIN Table(self) :
                      /\ Table(self)[v] \in 0..Len(self.pred_opt_pairs)
                      /\ Table(self)[v] + 1 <= Len(self.optimizers)
                      /\ Table(self)[v] = Len(self.pred_opt_pairs) => self.default # NoneVal
    /\ Applied => outcome.error # "IndexError"
    /\ (Applied /\ Returned) =>
          SumLen(outcome.dispatched, 1) =
              Cardinality(InputVars(outcome.input) \cap DOMAIN Table(Called))

(* A table that holds the largest index, the default's, next to the index  *)
(* of the second explicit pair, after a second call.                       *)
C20_Witness ==
    /\ Applied /\ Returned /\ ncalls["x"] = 2
    /\ Len(Called.pred_opt_pairs) = 2
    /\ \E v, w \in DOMAIN Table(Called) :
          Table(Called)[v] = 2 /\ Table(Called)[w] = 1
    /\ Len(outcome.input) = 3

(* C21: in a dense update of var with gradient g, the accumulator of var,  *)
(* which is 0 when var has not been seen before, becomes                   *)
(* m_new = (1 - gamma) * m + gamma * g, and the value written to var is    *)
(* decided from m_new, not from m: it is the sign of -v when               *)
(* v * m_new > threshold, the sign of v when v * m_new < threshold and +1  *)
(* at equality. The accumulator of every other variable is unchanged.      *)
C21_AccumulatorThenDecision ==
    [][(outcome'.op = "_resource_apply_dense" /\ ncalls' # ncalls) =>
          LET var == outcome'.input[1].var
              g == outcome'.input[1].grad
              gamma == get_decayed_hyper(The(bop).hyper.gamma, ncalls["bop"])
              threshold == get_decayed_hyper(The(bop).hyper.threshold, ncalls["bop"])
              m == SlotM(slot_m, var)
              m_new == (1 - gamma) * m + gamma * g
              v == value[var]
          IN  /\ <<"bop", 0, var>> \notin DOMAIN slot_m => SlotM(slot_m', var) = gamma * g
              /\ SlotM(slot_m', var) = m_new
              /\ value'[var] = IF v * m_new > threshold THEN BinarySign(-v)
                               ELSE IF v * m_new < threshold THEN BinarySign(v)
                               ELSE 1
              /\ \A w \in Vars \ {var} :
                    /\ SlotM(slot_m', w) = SlotM(slot_m, w)
                    /\ <<"bop", 0, w>> \in DOMAIN slot_m' <=> <<"bop", 0, w>> \in DOMAIN slot_m
                    /\ value'[w] = value[w]]_vars

(* The first update of a variable, whose accumulator starts at 0: v = 1,   *)
(* gamma = 1, g = 2 and threshold = 1 give m_new = 2 and a flip to -1,     *)
(* where the accumulator before the update, 0, would give none.            *)
C21_Witness ==
    /\ DenseApplied /\ ncalls["bop"] = 1
    /\ DenseBefore = 1 /\ outcome.input[1].grad = 2
    /\ DenseMNew = 2 /\ DenseThreshold = 1
    /\ value[DenseVar] = -1

---------------------------------------------------------------------------
(* Concurrent first calls *)

(* The variables of a finished call's input that the instance's table      *)
(* holds and that the call handed to no delegate.                          *)
Missed(call) ==
    {v \in InputVars(call.input) :
        /\ v \in DOMAIN Table(The(case_optimizer["x"]))
        /\ \A i \in 1..Len(call.dispatched) :
              \A k \in 1..Len(call.dispatched[i]) : call.dispatched[i][k].var # v}
Finished(call) == call.pc = "done" /\ call.error = "none"

(* C22: the lazy build is not protected against concurrent first calls. A  *)
(* call that returns has handed every variable of its input that the       *)
(* table holds to a delegate unless another call was in flight during it:  *)
(* with strictly sequential calls no variable the table routes is skipped. *)
(* The witness is the interleaving the claim describes.                    *)
C22_MissOnlyWhenInterleaved ==
    \A t \in Threads :
        (Finished(in_flight[t]) /\ Missed(in_flight[t]) # {}) => in_flight[t].interleaved

(* One call ran the build to its end; the other found the table set while  *)
(* it was partly filled, skipped the build and skipped a variable of its   *)
(* input that the completed table routes to a delegate.                    *)
C22_Witness ==
    \E t \in Threads, u \in Threads :
        /\ t # u
        /\ Finished(in_flight[t]) /\ ~in_flight[t].built
        /\ Finished(in_flight[u]) /\ in_flight[u].built
        /\ \E v \in Missed(in_flight[t]) :
              Table(The(case_optimizer["x"]))[v] + 1 <= Len(The(case_optimizer["x"]).optimizers)

=============================================================================
